---- MODULE Spec2Model ----
(***************************************************************************)
(* Model of memdbg (src/src/lib.rs): the Debug implementation of Buf<N>,   *)
(* its helper write_ascii, and the dbg_impl / buf_dbg hook that routes any *)
(* type to it.  The formatter's output is modelled character by character  *)
(* as a sequence of one-character strings, so that the properties below    *)
(* are decided by reading the produced text back.                          *)
(***************************************************************************)
EXTENDS Integers, Sequences, FiniteSets, TLC

VARIABLES
    buf,        \* self.0, the N bytes of the buffer
    align,      \* core::mem::align_of::<usize>() of the platform
    features,   \* cargo features of the build: subset of {"debug","stringify"}
    caller,     \* "Buf": Debug of a Buf is used; "buf_dbg": a type wired by buf_dbg!
    name,       \* stringify!($name) of the wired type, as characters
    pc,         \* position in the code
    ptr_offset, \* what ptr.align_offset(align) returned (-1 before the call)
    pre,        \* the slice `pre` of line 40
    rest,       \* what the iterator rest.chunks(..) has not yet yielded
    out         \* the characters written to the Formatter so far

vars == <<buf, align, features, caller, name, pc, ptr_offset, pre, rest, out>>

----------------------------------------------------------------------------
(* Bounds and inputs *)

\* longest buffer (86 is the buffer of the crate documentation: 3 lines)
MaxLen == 86
\* largest platform alignment tried (64 is the first power of two above 32)
MaxAlign == 64
\* largest size_of of a type wired through buf_dbg!
MaxTypeSize == 6
\* length of the windows that sweep all 256 byte values
RampLen == 8

\* usize::MAX, which align_offset may return (largest integer of the checker)
UsizeMax == 2147483647

\* the buffer of the crate documentation, lines 11-18
DocBuf ==
    << 65, 32, 104, 32, 144, 32, 0, 32, 47, 32, 84, 104, 105, 115, 32, 105,
       115, 32, 97, 32, 116, 101, 115, 116, 32, 115, 116, 114, 105, 110, 103,
       44, 32, 84, 104, 101, 32, 76, 105, 110, 101, 32, 66, 114, 101, 97, 107,
       32, 119, 105, 108, 108, 32, 100, 101, 109, 111, 110, 115, 116, 114, 97,
       116, 101, 32, 109, 117, 108, 116, 105, 108, 105, 110, 101, 32, 102,
       111, 114, 109, 97, 116, 116, 105, 110, 103, 33 >>

\* the six bytes 41 20 68 20 90 00
Example6 == << 65, 32, 104, 32, 144, 0 >>

Cycle(s, n) == [i \in 1..n |-> s[((i - 1) % Len(s)) + 1]]

Ramp(w) == [i \in 1..RampLen |-> (w * RampLen + i - 1) % 256]

Buffers ==
    {Cycle(DocBuf, n) : n \in 0..MaxLen}
        \cup {Example6}
        \cup {Ramp(w) : w \in 0..(255 \div RampLen)}

TypeNames == { <<"F", "o", "o">>, <<"H", "d", "r">> }

BufName == <<"B", "u", "f">>

----------------------------------------------------------------------------
(* Pure helpers *)

Min(a, b) == IF a < b THEN a ELSE b

HexDigits ==
    << "0", "1", "2", "3", "4", "5", "6", "7",
       "8", "9", "A", "B", "C", "D", "E", "F" >>

\* the characters of 0x21 ..= 0x7E, in code order (0x60, the grave accent, is
\* written "GRAVE": a TLA+ string cannot hold that character)
AsciiTable ==
    << "!", "\"", "#", "$", "%", "&", "'", "(", ")", "*", "+", ",", "-", ".",
       "/", "0", "1", "2", "3", "4", "5", "6", "7", "8", "9", ":", ";", "<",
       "=", ">", "?", "@", "A", "B", "C", "D", "E", "F", "G", "H", "I", "J",
       "K", "L", "M", "N", "O", "P", "Q", "R", "S", "T", "U", "V", "W", "X",
       "Y", "Z", "[", "\\", "]", "^", "_", "GRAVE", "a", "b", "c", "d", "e", "f",
       "g", "h", "i", "j", "k", "l", "m", "n", "o", "p", "q", "r", "s", "t",
       "u", "v", "w", "x", "y", "z", "{", "|", "}", "~" >>

\* line 75: char as char, for an ASCII graphic byte
AsChar(b) == AsciiTable[b - 32]

Spaces(n) == [i \in 1..n |-> " "]

\* ptr.align_offset requires a power of two and panics otherwise
IsPowerOfTwo(a) == \E k \in 0..30 : a = 2 ^ k

\* faulty variant of ChunksPerLine: lines of 16 bytes
ChunksPerLine16(a) == 16 \div a

\* line 36
ChunksPerLine(a) == 32 \div a

\* line 48: the chunk size of rest.chunks(..)
LineSize(a) == a * ChunksPerLine(a)

\* line 38: the values ptr.align_offset(align) can return for a byte pointer
AlignOffsetResults(a) == (0..(a - 1)) \cup {UsizeMax}

\* faulty variant of ClampOffset: the offset is not clamped
ClampOffsetNone(o, n) == o

\* line 39
ClampOffset(o, n) == Min(o, n)

\* faulty variant of Hex02X: the low digit first
Hex02XSwapped(b) == << " ", HexDigits[(b % 16) + 1], HexDigits[(b \div 16) + 1] >>

\* lines 42 and 53: format_args!(" {:02X}", char)
Hex02X(b) == << " ", HexDigits[(b \div 16) + 1], HexDigits[(b % 16) + 1] >>

\* faulty variant of IsAsciiGraphic: the range starts one too late
IsAsciiGraphicOffByOne(b) == b > 33 /\ b <= 126

\* u8::is_ascii_graphic: b'!' ..= b'~'
IsAsciiGraphic(b) == b >= 33 /\ b <= 126

\* lines 74-78: one byte of write_ascii
AsciiOf(b) == IF IsAsciiGraphic(b) THEN << AsChar(b) >> ELSE << "." >>

\* lines 72-82
RECURSIVE WriteAscii(_)
WriteAscii(s) ==
    IF s = << >> THEN << >> ELSE AsciiOf(Head(s)) \o WriteAscii(Tail(s))

\* lines 41-43 and 52-54
RECURSIVE HexRun(_)
HexRun(s) ==
    IF s = << >> THEN << >> ELSE Hex02X(Head(s)) \o HexRun(Tail(s))

\* faulty variant of PreSeparator: written even for an empty prefix
PreSeparatorAlways(p) == << " ", "|" >>

\* lines 44-46
PreSeparator(p) == IF p # << >> THEN << " ", "|" >> ELSE << >>

\* line 49
LineBreak == << "\n" >>

\* lines 50-55: the sub-chunks of one line, each introduced by " |"
RECURSIVE HexChunks(_, _)
HexChunks(line, a) ==
    IF line = << >> THEN << >>
    ELSE LET k == Min(a, Len(line))
         IN  << " ", "|" >> \o HexRun(SubSeq(line, 1, k))
                 \o HexChunks(SubSeq(line, k + 1, Len(line)), a)

\* faulty variant of Fill: the shortfall against one sub-chunk, not one line
FillOneChunk(a, n) == a - n

\* line 57
Fill(a, n) == a * ChunksPerLine(a) - n

\* faulty variant of PadWidth: no space for the missing separators
PadWidthNoSeparators(a, fill) == 3 * fill

\* faulty variant of PadWidth: the missing separators rounded up
PadWidthCeil(a, fill) == 3 * fill + 2 * ((fill + a - 1) \div a)

\* line 58
PadWidth(a, fill) == 3 * fill + 2 * (fill \div a)

\* line 63
Delimiter == << " ", "|", " " >>

\* faulty variant of LineText: the line break ends the line
LineTextBreakLast(line, a) ==
    HexChunks(line, a) \o Spaces(PadWidth(a, Fill(a, Len(line))))
        \o Delimiter \o WriteAscii(line) \o LineBreak

\* lines 49-65: one iteration of the loop over rest.chunks(..)
LineText(line, a) ==
    LineBreak \o HexChunks(line, a) \o Spaces(PadWidth(a, Fill(a, Len(line))))
        \o Delimiter \o WriteAscii(line)

\* lines 41-47
PreText(p) == HexRun(p) \o PreSeparator(p) \o WriteAscii(p)

\* lines 34-69 as a function of the buffer, the alignment and the clamped offset
RECURSIVE GroupLines(_, _)
GroupLines(r, a) ==
    IF r = << >> THEN << >>
    ELSE LET k == Min(LineSize(a), Len(r))
         IN  LineText(SubSeq(r, 1, k), a) \o GroupLines(SubSeq(r, k + 1, Len(r)), a)

FormatText(b, a, offset) ==
    PreText(SubSeq(b, 1, offset)) \o GroupLines(SubSeq(b, offset + 1, Len(b)), a)

\* faulty variant of HookMode: "stringify" wins over "debug"
HookModeNameFirst(fs) ==
    IF "stringify" \in fs THEN "name"
    ELSE IF "debug" \in fs THEN "bytes"
    ELSE "none"

\* the cfg attributes of lines 85, 95, 111 and 128
HookMode(fs) ==
    IF "debug" \in fs THEN "bytes"
    ELSE IF "stringify" \in fs THEN "name"
    ELSE "none"

----------------------------------------------------------------------------
(* The state machine *)

Init ==
    /\ align \in 1..MaxAlign
    /\ features \in SUBSET {"debug", "stringify"}
    /\ \/ /\ caller = "Buf"
          /\ name = BufName
          /\ features = {}
          /\ buf \in Buffers
       \/ /\ caller = "buf_dbg"
          /\ name \in TypeNames
          /\ buf \in {b \in Buffers : Len(b) <= MaxTypeSize}
    /\ pc = "call"
    /\ ptr_offset = -1
    /\ pre = << >>
    /\ rest = << >>
    /\ out = << >>

\* <Buf<N> as Debug>::fmt called on a Buf (line 34)
BufFmt ==
    /\ pc = "call"
    /\ caller = "Buf"
    /\ pc' = "fmt"
    /\ UNCHANGED <<buf, align, features, caller, name, ptr_offset, pre, rest, out>>

\* lines 85-92 through lines 112-124: feature "debug"
DbgImplDebug ==
    /\ pc = "call"
    /\ caller = "buf_dbg"
    /\ HookMode(features) = "bytes"
    /\ pc' = "fmt"
    /\ UNCHANGED <<buf, align, features, caller, name, ptr_offset, pre, rest, out>>

\* lines 95-102 through lines 112-124: feature "stringify" without "debug"
DbgImplStringify ==
    /\ pc = "call"
    /\ caller = "buf_dbg"
    /\ HookMode(features) = "name"
    /\ out' = out \o name
    /\ pc' = "done"
    /\ UNCHANGED <<buf, align, features, caller, name, ptr_offset, pre, rest>>

\* lines 127-131: no feature, the macro expands to nothing
BufDbgNothing ==
    /\ pc = "call"
    /\ caller = "buf_dbg"
    /\ HookMode(features) = "none"
    /\ pc' = "noimpl"
    /\ UNCHANGED <<buf, align, features, caller, name, ptr_offset, pre, rest, out>>

\* line 38 when align is no power of two: align_offset panics
AlignOffsetPanic ==
    /\ pc = "fmt"
    /\ ~IsPowerOfTwo(align)
    /\ pc' = "panic"
    /\ UNCHANGED <<buf, align, features, caller, name, ptr_offset, pre, rest, out>>

\* lines 35-40
SplitAt ==
    /\ pc = "fmt"
    /\ IsPowerOfTwo(align)
    /\ \E o \in AlignOffsetResults(align) :
          LET offset == ClampOffset(o, Len(buf))
          IN  /\ ptr_offset' = o
              /\ IF offset > Len(buf)
                 THEN \* split_at panics when mid > len
                      /\ pc' = "panic"
                      /\ UNCHANGED <<pre, rest>>
                 ELSE /\ pre' = SubSeq(buf, 1, offset)
                      /\ rest' = SubSeq(buf, offset + 1, Len(buf))
                      /\ pc' = "pre"
    /\ UNCHANGED <<buf, align, features, caller, name, out>>

\* lines 41-47
WritePre ==
    /\ pc = "pre"
    /\ out' = out \o PreText(pre)
    /\ pc' = "lines"
    /\ UNCHANGED <<buf, align, features, caller, name, ptr_offset, pre, rest>>

\* line 48 with a chunk size of zero: chunks panics
ChunksPanic ==
    /\ pc = "lines"
    /\ LineSize(align) = 0
    /\ pc' = "panic"
    /\ UNCHANGED <<buf, align, features, caller, name, ptr_offset, pre, rest, out>>

\* lines 48-66: one iteration
WriteLine ==
    /\ pc = "lines"
    /\ LineSize(align) > 0
    /\ rest # << >>
    /\ LET k == Min(LineSize(align), Len(rest))
           line == SubSeq(rest, 1, k)
       IN  IF Fill(align, Len(line)) < 0
           THEN \* usize subtraction overflow
                /\ pc' = "panic"
                /\ UNCHANGED <<rest, out>>
           ELSE /\ out' = out \o LineText(line, align)
                /\ rest' = SubSeq(rest, k + 1, Len(rest))
                /\ pc' = "lines"
    /\ UNCHANGED <<buf, align, features, caller, name, ptr_offset, pre>>

\* line 68
FmtOk ==
    /\ pc = "lines"
    /\ LineSize(align) > 0
    /\ rest = << >>
    /\ pc' = "done"
    /\ UNCHANGED <<buf, align, features, caller, name, ptr_offset, pre, rest, out>>

Next ==
    \/ BufFmt
    \/ DbgImplDebug
    \/ DbgImplStringify
    \/ BufDbgNothing
    \/ AlignOffsetPanic
    \/ SplitAt
    \/ WritePre
    \/ ChunksPanic
    \/ WriteLine
    \/ FmtOk

Spec == Init /\ [][Next]_vars

----------------------------------------------------------------------------
(* Reading the produced text back *)

RECURSIVE SortedSeq(_)
\* the elements of a finite set of integers, ascending
SortedSeq(S) ==
    IF S = {} THEN << >>
    ELSE LET m == CHOOSE x \in S : \A y \in S : x <= y
         IN  << m >> \o SortedSeq(S \ {m})

\* the lines of a text: what stands between its line breaks
TextLines(s) ==
    LET nl == SortedSeq({i \in 1..Len(s) : s[i] = "\n"})
        from(k) == IF k = 1 THEN 1 ELSE nl[k - 1] + 1
        to(k) == IF k = Len(nl) + 1 THEN Len(s) ELSE nl[k] - 1
    IN  [k \in 1..(Len(nl) + 1) |-> SubSeq(s, from(k), to(k))]

HexDigitSet == {HexDigits[i] : i \in 1..16}

HexValue(c) == CHOOSE v \in 0..15 : HexDigits[v + 1] = c

\* the two-digit uppercase hex tokens of a text, decoded, in text order
HexBytes(t) ==
    LET isHex(i) == i >= 1 /\ i <= Len(t) /\ t[i] \in HexDigitSet
        at == SortedSeq({i \in 1..Len(t) :
                  isHex(i) /\ isHex(i + 1) /\ ~isHex(i - 1) /\ ~isHex(i + 2)})
    IN  [k \in 1..Len(at) |-> 16 * HexValue(t[at[k]]) + HexValue(t[at[k] + 1])]

\* the text before the first line break holds the prefix: hex tokens, then "|",
\* then the ASCII characters
PrefixHexPart(l) ==
    LET bar == {i \in 1..Len(l) : l[i] = "|"}
    IN  IF bar = {} THEN l
        ELSE SubSeq(l, 1, (CHOOSE i \in bar : \A j \in bar : i <= j) - 1)

PrefixAsciiPart(l) ==
    LET bar == {i \in 1..Len(l) : l[i] = "|"}
    IN  IF bar = {} THEN << >>
        ELSE SubSeq(l, (CHOOSE i \in bar : \A j \in bar : i <= j) + 1, Len(l))

\* a line of a group: the ASCII column never holds a space, so it is what
\* follows the last space, and the hex part is what comes up to that space
LastSpace(l) ==
    LET sp == {i \in 1..Len(l) : l[i] = " "}
    IN  IF sp = {} THEN 0 ELSE CHOOSE i \in sp : \A j \in sp : j <= i

GroupHexPart(l) == SubSeq(l, 1, LastSpace(l))

GroupAsciiPart(l) == SubSeq(l, LastSpace(l) + 1, Len(l))

RECURSIVE Flatten(_)
Flatten(ss) == IF ss = << >> THEN << >> ELSE Head(ss) \o Flatten(Tail(ss))

\* all hex tokens of a text, decoded, in output order
TextHexBytes(s) ==
    LET ls == TextLines(s)
    IN  Flatten([k \in 1..Len(ls) |->
            IF k = 1 THEN HexBytes(PrefixHexPart(ls[1]))
            ELSE HexBytes(GroupHexPart(ls[k]))])

\* all ASCII-column characters of a text, in output order
TextAscii(s) ==
    LET ls == TextLines(s)
    IN  Flatten([k \in 1..Len(ls) |->
            IF k = 1 THEN PrefixAsciiPart(ls[1]) ELSE GroupAsciiPart(ls[k])])

\* the formatter ran to its end (the hook's name-only mode never calls it)
FmtDone == pc = "done" /\ ptr_offset # -1

\* the formatter has split the buffer and is writing, or is done
FmtWriting == pc \in {"pre", "lines", "done"} /\ ptr_offset # -1

\* the bytes the formatter has rendered so far
Rendered == SubSeq(buf, 1, Len(buf) - Len(rest))

\* the character of an ASCII graphic byte code
CharOfCode(b) == AsciiTable[b - 32]

----------------------------------------------------------------------------
(* Claims *)

\* C1: whenever the formatter has finished (align divides 32, any alignment
\* offset), the two-digit hex tokens of the output, decoded in output order,
\* are exactly the bytes of the buffer, and the ASCII-column characters, in
\* output order, are exactly one per byte, the i-th rendering the i-th byte.
C1_BytesConserved ==
    FmtDone =>
        /\ 32 % align = 0
        /\ TextHexBytes(out) = buf
        /\ LET col == TextAscii(out)
           IN  /\ Len(col) = Len(buf)
               /\ col = Flatten([i \in 1..Len(buf) |-> AsciiOf(buf[i])])

\* a finished run over three lines with a prefix
C1_Witness ==
    /\ FmtDone
    /\ Len(buf) = MaxLen
    /\ Len(pre) = 3
    /\ align = 8

\* C5: every ASCII-column character is the literal character of its byte when
\* the byte is in 0x21..0x7E and "." for every other byte value, in the prefix
\* and in the grouped lines alike.
C5_AsciiRule ==
    FmtWriting /\ pc # "pre" =>
        LET col == TextAscii(out)
        IN  /\ Len(col) = Len(Rendered)
            /\ \A i \in 1..Len(col) :
                  LET b == buf[i]
                  IN  /\ (b >= 33 /\ b <= 126) => col[i] = CharOfCode(b)
                      /\ (b < 33 \/ b > 126) => col[i] = "."
                      /\ b = 65 => col[i] = "A"
                      /\ b = 33 => col[i] = "!"
                      /\ b = 126 => col[i] = "~"

\* a finished run whose prefix and whose grouped line both hold a graphic
\* byte and a byte rendered as "."
C5_Witness ==
    /\ FmtDone
    /\ buf = Cycle(DocBuf, 12)
    /\ Len(pre) = 5
    /\ TextAscii(out) = << "A", ".", "h", ".", ".", ".", ".", ".", "/", ".", "T", "h" >>

\* C7: formatting a buffer of length 0 writes nothing at all, for every valid
\* align and whatever align_offset returned.
C7_EmptyInput ==
    (FmtWriting /\ Len(buf) = 0 /\ LineSize(align) > 0) => out = << >>

\* a finished run on the empty buffer, align_offset having returned usize::MAX
C7_Witness ==
    /\ FmtDone
    /\ buf = << >>
    /\ ptr_offset = UsizeMax
    /\ out = << >>

\* the text of the six-byte example, less its leading line break
Example6Head ==
    << " ", "|", " ", "4", "1", " ", "2", "0", " ", "6", "8", " ", "2", "0",
       " ", "|", " ", "9", "0", " ", "0", "0" >>

Example6Tail == << " ", "|", " ", "A", ".", "h", ".", ".", "." >>

\* C2 (as amended): with align = 4 and alignment offset 0 the six bytes
\* 41 20 68 20 90 00 give one line break followed by a single line: " |",
\* " 41 20 68 20", " |", " 90 00", then only padding spaces (90 of them), then
\* " | ", then "A.h..." as the end of the output; and with alignment offset 0
\* and a non-empty input the output starts with a line break and then " |".
C2_ExampleLine ==
    /\ (FmtDone /\ buf = Example6 /\ align = 4 /\ ptr_offset = 0) =>
           out = LineBreak \o Example6Head \o Spaces(90) \o Example6Tail
    /\ (FmtDone /\ ptr_offset = 0 /\ buf # << >>) =>
           SubSeq(out, 1, 3) = << "\n", " ", "|" >>

\* the six-byte example, formatted with align = 4 and offset 0
C2_Witness ==
    /\ FmtDone
    /\ caller = "Buf"
    /\ buf = Example6
    /\ align = 4
    /\ ptr_offset = 0
    /\ Len(out) = 122

\* C2 as first stated: the example's output holds no line break and starts
\* with " |", and every output for offset 0 and a non-empty input starts with
\* " |".
C2_Original ==
    /\ (FmtDone /\ buf = Example6 /\ align = 4 /\ ptr_offset = 0) =>
           /\ \A i \in 1..Len(out) : out[i] # "\n"
           /\ \E n \in 0..128 : out = Example6Head \o Spaces(n) \o Example6Tail
    /\ (FmtDone /\ ptr_offset = 0 /\ buf # << >>) =>
           SubSeq(out, 1, 2) = << " ", "|" >>

\* the width of the hex part of a full line: 2*chunks_per_line + 3*align*chunks_per_line
HexColumnWidth(a) == 2 * ChunksPerLine(a) + 3 * a * ChunksPerLine(a)

\* the width of the hex part of a line of n bytes, before its padding
HexWidth(a, n) == 3 * n + 2 * ((n + a - 1) \div a)

\* C3: on every line that renders a group of rest, full or short, the " | "
\* before the ASCII column starts at offset 2*chunks_per_line +
\* 3*align*chunks_per_line of the line; and for every align in 1..32 and every
\* group length L the padding 3*fill + 2*(fill div align) is exactly the width
\* of the missing bytes and separators.
C3_ColumnAligned ==
    /\ (FmtWriting /\ pc # "pre") =>
           LET ls == TextLines(out)
               w == HexColumnWidth(align)
           IN  \A k \in 2..Len(ls) :
                   /\ LastSpace(ls[k]) = w + 3
                   /\ SubSeq(ls[k], w + 1, w + 3) = << " ", "|", " " >>
    /\ align <= 32 =>
           \A n \in 1..LineSize(align) :
               PadWidth(align, Fill(align, n)) =
                   HexColumnWidth(align) - HexWidth(align, n)
    /\ (pc = "call" /\ align <= 32 /\ Len(buf) >= 1 /\ Len(buf) <= LineSize(align)) =>
           \* the line the loop body writes for the buffer taken as one group
           LET l == Tail(LineText(buf, align))
               w == HexColumnWidth(align)
           IN  /\ LastSpace(l) = w + 3
               /\ SubSeq(l, w + 1, w + 3) = << " ", "|", " " >>

\* 40 bytes, align 4, no prefix: a full line and a short line
C3_Witness ==
    /\ FmtDone
    /\ Len(buf) = 40
    /\ align = 4
    /\ ptr_offset = 0
    /\ Len(TextLines(out)) = 3

\* the number of hex tokens of each group line of a text
GroupByteCounts(s) ==
    LET ls == TextLines(s)
    IN  [k \in 1..(Len(ls) - 1) |-> Len(HexBytes(GroupHexPart(ls[k + 1])))]

\* C4: with alignment offset 0 a buffer of N > 0 bytes gives ceil(N / 32)
\* byte-carrying lines, the bytes in order, 32 on every line but the last and
\* the remainder on the last, each line split into sub-chunks of align bytes
\* introduced by " |"; 40 bytes with align 4 give 32 and 8, 86 bytes with
\* align 8 give 32, 32 and 22.
C4_LineWrapping ==
    (FmtDone /\ ptr_offset = 0 /\ Len(buf) > 0) =>
        LET ls == TextLines(out)
            n == Len(buf)
            nl == (n + 31) \div 32
            cnt(k) == IF k < nl THEN 32 ELSE n - 32 * (nl - 1)
        IN  /\ 32 % align = 0
            /\ Len(ls) = nl + 1
            /\ ls[1] = << >>
            /\ \A k \in 1..nl :
                  LET hex == GroupHexPart(ls[k + 1])
                      chunks == (cnt(k) + align - 1) \div align
                      first(j) == j * (3 * align + 2) + 1
                  IN  /\ HexBytes(hex) = SubSeq(buf, 32 * (k - 1) + 1, 32 * (k - 1) + cnt(k))
                      /\ Cardinality({i \in 1..Len(hex) : hex[i] = "|"}) = chunks + 1
                      /\ \A j \in 0..(chunks - 1) :
                            /\ SubSeq(hex, first(j), first(j) + 1) = << " ", "|" >>
                            /\ HexBytes(SubSeq(hex, first(j) + 2, Min(first(j + 1) - 1, Len(hex)))) =
                                   SubSeq(buf, 32 * (k - 1) + j * align + 1,
                                          32 * (k - 1) + Min((j + 1) * align, cnt(k)))
            /\ (n = 40 /\ align = 4) => GroupByteCounts(out) = << 32, 8 >>
            /\ (n = 86 /\ align = 8) => GroupByteCounts(out) = << 32, 32, 22 >>

\* the 86 bytes of the documentation, align 8, no prefix
C4_Witness ==
    /\ FmtDone
    /\ buf = DocBuf
    /\ align = 8
    /\ ptr_offset = 0
    /\ GroupByteCounts(out) = << 32, 32, 22 >>

\* C6: when align_offset returns more than the length of the buffer, the
\* prefix is the whole buffer, the split does not fail, and the output is the
\* output for an offset equal to the length; the prefix length is always
\* min(offset, length).
C6_PrefixClamped ==
    /\ FmtWriting => Len(pre) = Min(ptr_offset, Len(buf))
    /\ (ptr_offset > Len(buf) /\ LineSize(align) > 0) =>
           /\ pc # "panic"
           /\ pre = buf
           /\ FmtDone => out = FormatText(buf, align, Len(buf))

\* an offset of 5 on a buffer of 3 bytes
C6_Witness ==
    /\ FmtDone
    /\ ptr_offset = 5
    /\ Len(buf) = 3
    /\ Len(out) = 14

C9_HookModes ==
    caller = "buf_dbg" =>
        /\ (features = {"stringify"}) =>
               /\ ptr_offset = -1
               /\ pc \in {"call", "done"}
               /\ pc = "call" => out = << >>
               /\ pc = "done" => out = name
        /\ ("debug" \in features) =>
               /\ pc # "noimpl"
               /\ pc = "done" =>
                      /\ ptr_offset # -1
                      /\ out = FormatText(buf, align, Min(ptr_offset, Len(buf)))
        /\ (features = {}) =>
               /\ pc \in {"call", "noimpl"}
               /\ out = << >>

\* both features enabled: the bytes are formatted, the name is not written
C9_Witness ==
    /\ caller = "buf_dbg"
    /\ features = {"debug", "stringify"}
    /\ pc = "done"
    /\ Len(buf) = MaxTypeSize
    /\ TextHexBytes(out) = buf

\* C10 (as amended): with a non-empty prefix and a non-empty rest, the output
\* is the prefix's " XX" tokens, " |", the prefix's ASCII characters, then one
\* line break, then the first group's " |": the prefix has a line of its own;
\* and the output never ends with a line break.
C10_PrefixOwnLine ==
    /\ (FmtDone /\ pre # << >> /\ Len(pre) < Len(buf)) =>
           LET p == Len(pre)
           IN  /\ Len(SubSeq(out, 1, 3 * p)) = 3 * p
               /\ HexBytes(SubSeq(out, 1, 3 * p)) = pre
               /\ SubSeq(out, 3 * p + 1, 3 * p + 2) = << " ", "|" >>
               /\ SubSeq(out, 3 * p + 3, 4 * p + 2) = TextAscii(SubSeq(out, 1, 4 * p + 2))
               /\ Len(TextAscii(SubSeq(out, 1, 4 * p + 2))) = p
               /\ SubSeq(out, 4 * p + 3, 4 * p + 5) = << "\n", " ", "|" >>
    /\ (FmtDone /\ out # << >>) => out[Len(out)] # "\n"

\* a prefix of 2 bytes before 38 bytes of rest
C10_Witness ==
    /\ FmtDone
    /\ Len(pre) = 2
    /\ Len(buf) = 40
    /\ align = 4
    /\ Len(TextLines(out)) = 3

\* C10 as first stated: no line break stands between the prefix's ASCII
\* characters and the first group's " |", and the output never ends with a
\* line break.
C10_Original ==
    /\ (FmtDone /\ pre # << >> /\ Len(pre) < Len(buf)) =>
           LET p == Len(pre)
           IN  /\ out[4 * p + 3] # "\n"
               /\ SubSeq(out, 4 * p + 3, 4 * p + 4) = << " ", "|" >>
    /\ (FmtDone /\ out # << >>) => out[Len(out)] # "\n"

====
